---- MODULE Spec2Model ----
(***************************************************************************)
(* Product Gallery (src/app.py): a Streamlit script that reads a Google    *)
(* Sheet through a memoized API client, caches the range result for five   *)
(* minutes and renders one display unit per row.                           *)
(*                                                                         *)
(* Text is modelled as a sequence of one-character strings, so that        *)
(* strip(), lower() and endswith() are computed and not assumed.  The      *)
(* value pandas stores in a padded cell (None) is the one-element sequence *)
(* NoneVal, whose element is no character.                                 *)
(***************************************************************************)
EXTENDS Integers, Sequences, FiniteSets, TLC

\* ------------------------------------------------------------------ bounds
\* Longest list of data rows the remote read returns.
MaxRows == 2
\* The clock stops advancing here (seconds).
MaxTime == 450
\* Seconds that pass in one Tick.
TickStep == 150
\* The construction counter saturates here.
MaxConstructions == 3

\* --------------------------------------------------------- program constants
\* @st.cache_data(ttl=300)
TTL == 300

\* ------------------------------------------------------------------- text
Blank == << >>
Spaces == <<" ">>
NoneVal == <<"None">>
VideoUrl == <<"v", ".", "M", "P", "4">>
ImageUrl == <<"i", ".", "j", "p", "g">>
Tag == <<"t">>

IsNone(v) == v = NoneVal

IsSpace(c) == c \in {" ", "\t", "\n"}

RECURSIVE LStrip(_)
LStrip(s) == IF s # << >> /\ IsSpace(Head(s)) THEN LStrip(Tail(s)) ELSE s

RECURSIVE RStrip(_)
RStrip(s) ==
    IF s # << >> /\ IsSpace(s[Len(s)]) THEN RStrip(SubSeq(s, 1, Len(s) - 1)) ELSE s

\* str.strip()
Strip(s) == RStrip(LStrip(s))

LowerChar(c) ==
    CASE c = "M" -> "m"
      [] c = "P" -> "p"
      [] c = "V" -> "v"
      [] c = "O" -> "o"
      [] OTHER -> c

\* str.lower()
Lower(s) == [i \in 1..Len(s) |-> LowerChar(s[i])]

\* str.endswith(suffix)
EndsWith(s, suffix) ==
    /\ Len(s) >= Len(suffix)
    /\ SubSeq(s, Len(s) - Len(suffix) + 1, Len(s)) = suffix

video_extensions ==
    << <<".", "m", "p", "4">>,
       <<".", "w", "e", "b", "m">>,
       <<".", "m", "o", "v">>,
       <<".", "a", "v", "i">>,
       <<".", "m", "k", "v">> >>

is_video_url(url) ==
    \E i \in DOMAIN video_extensions : EndsWith(Lower(url), video_extensions[i])

\* ------------------------------------------------------------- tabular data
\* The value load_sheet_data returns: None, or a DataFrame (column names and
\* rows, every row as wide as the column list).
NoneResult == [isNone |-> TRUE, cols |-> << >>, rows |-> << >>]

Frame(cols, rows) == [isNone |-> FALSE, cols |-> cols, rows |-> rows]

Max(a, b) == IF a >= b THEN a ELSE b

RECURSIVE Width(_)
\* Length of the longest row of a list of lists.
Width(data) == IF data = << >> THEN 0 ELSE Max(Len(Head(data)), Width(Tail(data)))

\* A ragged row filled with None up to width w.
Pad(row, w) == [i \in 1..w |-> IF i <= Len(row) THEN row[i] ELSE NoneVal]

\* pd.DataFrame(data, columns=columns) on a list of lists: an empty list gives
\* a frame with the columns and no rows; otherwise the rows are padded to the
\* longest one and the column count must equal that width, else ValueError.
PdDataFrame(data, columns) ==
    IF data = << >>
    THEN [ok |-> TRUE, df |-> Frame(columns, << >>)]
    ELSE IF Len(columns) # Width(data)
    THEN [ok |-> FALSE, df |-> NoneResult]
    ELSE [ok |-> TRUE,
          df |-> Frame(columns, [i \in 1..Len(data) |-> Pad(data[i], Width(data))])]

\* DataFrame.empty
DfEmpty(df) == Len(df.cols) = 0 \/ Len(df.rows) = 0

\* row.get(col, ''): the cell under the column name, '' when there is no such
\* column.  A padded cell is returned as it is stored (None).
RowGet(cols, row, col) ==
    IF \E i \in DOMAIN cols : cols[i] = col
    THEN row[CHOOSE i \in DOMAIN cols : cols[i] = col /\ \A j \in 1..(i - 1) : cols[j] # col]
    ELSE Blank

\* ------------------------------------------------------------ row rendering
\* The six tag columns display_product reads, in the order it reads them.
TagColumns ==
    <<"Kurdish Tags", "Kurdish Color Tags", "Kurdish Material Tags",
      "Arabic Tags", "Arabic Colors Tags", "Arabic Material Tags">>

\* What one call of display_product leaves on the page.
Product(kind, media, groups) == [kind |-> kind, media |-> media, groups |-> groups]

\* The media block of display_product: the try/except around st.video/st.image.
ShowMedia(url, mediaFails) ==
    IF mediaFails THEN "error" ELSE IF is_video_url(url) THEN "video" ELSE "image"

\* The tag half of display_product: .strip() on a None cell raises
\* AttributeError outside any try block; an empty group is not shown.
ShowTags(cols, row, media) ==
    IF \E k \in DOMAIN TagColumns : IsNone(RowGet(cols, row, TagColumns[k]))
    THEN Product("raised", media, {})
    ELSE Product("unit", media,
                 {TagColumns[k] : k \in {j \in DOMAIN TagColumns :
                                           Strip(RowGet(cols, row, TagColumns[j])) # Blank}})

\* display_product(row, index).  mediaFails: st.video/st.image raises for it.
display_product(cols, row, mediaFails) ==
    IF IsNone(RowGet(cols, row, "URL"))
    THEN Product("raised", "none", {})
    ELSE IF Strip(RowGet(cols, row, "URL")) = Blank
    THEN Product("skipped", "none", {})
    ELSE ShowTags(cols, row, ShowMedia(Strip(RowGet(cols, row, "URL")), mediaFails))

RECURSIVE RenderFrom(_, _, _)
\* for index, row in df.iterrows(): display_product(row, index) -- the loop ends
\* at the first call that raises.
RenderFrom(df, fails, i) ==
    IF i > Len(df.rows)
    THEN << >>
    ELSE LET p == display_product(df.cols, df.rows[i], i \in fails)
         IN  IF p.kind = "raised" THEN <<p>> ELSE <<p>> \o RenderFrom(df, fails, i + 1)

\* ------------------------------------------------------------- diagnostics
Diag(stage, detail, fields) == [stage |-> stage, detail |-> detail, fields |-> fields]

NoDiag == Diag("none", "", {})

\* -------------------------------------------------------------- credentials
\* The fields of a service-account document the secret may hold.
CredentialKeys == {"type", "project_id", "private_key", "client_email", "token_uri"}

\* A secret store: no credential entry at all, a JSON string
\* (gcp_service_account_json) or a table of fields (gcp_service_account).
Secret(source, parses, keys, pemOk) ==
    [source |-> source, parses |-> parses, keys |-> keys, pemOk |-> pemOk]

NoSecret == Secret("none", TRUE, {}, TRUE)

\* service_account.Credentials.from_service_account_info(credentials_dict, ...):
\* the library asks for client_email and token_uri, then for private_key, then
\* parses the key.
from_service_account_info(sec) ==
    IF {"client_email", "token_uri"} \ sec.keys # {}
    THEN [ok |-> FALSE, detail |-> "missing fields",
          fields |-> {"client_email", "token_uri"} \ sec.keys]
    ELSE IF "private_key" \notin sec.keys
    THEN [ok |-> FALSE, detail |-> "private_key not found", fields |-> {}]
    ELSE IF ~sec.pemOk
    THEN [ok |-> FALSE, detail |-> "key not parsed", fields |-> {}]
    ELSE [ok |-> TRUE, detail |-> "", fields |-> {}]

\* Mutant: the first handler catches ValueError, so a rejected credential is
\* reported as a JSON error.
ClientBody_ValueErrorAsJson(sec, buildOk) ==
    IF sec.source = "none"
    THEN [value |-> "none", diag |-> Diag("no_secret", "", {})]
    ELSE IF sec.source = "json" /\ ~sec.parses
    THEN [value |-> "none", diag |-> Diag("json_error", "JSONDecodeError", {})]
    ELSE IF ~from_service_account_info(sec).ok
    THEN [value |-> "none",
          diag |-> Diag("json_error", from_service_account_info(sec).detail, {})]
    ELSE IF ~buildOk
    THEN [value |-> "none", diag |-> Diag("connect_error", "build failed", {})]
    ELSE [value |-> "client", diag |-> NoDiag]

\* The body of get_google_sheets_client: the value it returns and what it
\* reports.  buildOk: build('sheets', 'v4', ...) does not raise.
ClientBody(sec, buildOk) ==
    IF sec.source = "none"
    THEN [value |-> "none", diag |-> Diag("no_secret", "", {})]
    ELSE IF sec.source = "json" /\ ~sec.parses
    THEN [value |-> "none", diag |-> Diag("json_error", "JSONDecodeError", {})]
    ELSE IF ~from_service_account_info(sec).ok
    THEN [value |-> "none",
          diag |-> Diag("connect_error", from_service_account_info(sec).detail,
                        from_service_account_info(sec).fields)]
    ELSE IF ~buildOk
    THEN [value |-> "none", diag |-> Diag("connect_error", "build failed", {})]
    ELSE [value |-> "client", diag |-> NoDiag]

\* @st.cache_resource: the memo of get_google_sheets_client (one entry, the
\* function takes no argument).
NoMemo == [set |-> FALSE, value |-> "none", diag |-> NoDiag]

\* Mutant: a memoized None is not served, the body runs again.
ClientMemoHit_ClientsOnly(memo) == memo.set /\ memo.value = "client"

\* The memo serves a call when it holds a value, None included.
ClientMemoHit(memo) == memo.set

\* Mutant: the function is not memoized, every call runs its body.
GetClient_Unmemoized(memo, sec, buildOk) ==
    [memo |-> [set |-> FALSE,
               value |-> ClientBody(sec, buildOk).value,
               diag |-> ClientBody(sec, buildOk).diag],
     ran |-> TRUE]

\* get_google_sheets_client(): the memo after the call and whether the body ran.
GetClient(memo, sec, buildOk) ==
    IF ClientMemoHit(memo)
    THEN [memo |-> memo, ran |-> FALSE]
    ELSE [memo |-> [set |-> TRUE,
                    value |-> ClientBody(sec, buildOk).value,
                    diag |-> ClientBody(sec, buildOk).diag],
          ran |-> TRUE]

\* ------------------------------------------------------------- sheet loader
\* What sheet.values().get(...).execute() does: raises (err) or returns the
\* 'values' list of the response ([] when the response has none).
Failed(err) == [ok |-> FALSE, err |-> err, values |-> << >>]

Values(v) == [ok |-> TRUE, err |-> "", values |-> v]

FailureClasses == {"http404", "http403", "other"}

\* Mutant: the handler returns an empty frame instead of None.
OnLoadError_EmptyFrame(detail) ==
    [result |-> Frame(<< >>, << >>), diag |-> Diag("load_error", detail, {})]

\* except Exception as e: st.error(f"Error loading sheet data: {str(e)}"); return None
OnLoadError(detail) == [result |-> NoneResult, diag |-> Diag("load_error", detail, {})]

\* values[1:] become the rows and values[0] the columns of the DataFrame.
ShapeRows(values) ==
    IF PdDataFrame(Tail(values), Head(values)).ok
    THEN [result |-> PdDataFrame(Tail(values), Head(values)).df, diag |-> NoDiag]
    ELSE OnLoadError("columns passed do not match data")

\* Mutant: no "if not values" test, so values[0] of an empty list raises
\* IndexError into the handler.
LoadBody_NoEmptyCheck(client, outcome) ==
    IF client = "none"
    THEN [result |-> NoneResult, diag |-> NoDiag, remote |-> FALSE]
    ELSE IF ~outcome.ok
    THEN [result |-> OnLoadError(outcome.err).result,
          diag |-> OnLoadError(outcome.err).diag, remote |-> TRUE]
    ELSE IF outcome.values = << >>
    THEN [result |-> OnLoadError("list index out of range").result,
          diag |-> OnLoadError("list index out of range").diag, remote |-> TRUE]
    ELSE [result |-> ShapeRows(outcome.values).result,
          diag |-> ShapeRows(outcome.values).diag, remote |-> TRUE]

\* The body of load_sheet_data once it has the client: [result, diag, remote].
LoadBody(client, outcome) ==
    IF client = "none"
    THEN [result |-> NoneResult, diag |-> NoDiag, remote |-> FALSE]
    ELSE IF ~outcome.ok
    THEN [result |-> OnLoadError(outcome.err).result,
          diag |-> OnLoadError(outcome.err).diag, remote |-> TRUE]
    ELSE IF outcome.values = << >>
    THEN [result |-> NoneResult, diag |-> Diag("no_data", "", {}), remote |-> TRUE]
    ELSE [result |-> ShapeRows(outcome.values).result,
          diag |-> ShapeRows(outcome.values).diag, remote |-> TRUE]

\* @st.cache_data(ttl=300): a dictionary with one entry per argument tuple,
\* each holding the time it was stored, the value returned and what was reported.
NoEntries == << >>

Entry(t, result, diag) == [t |-> t, result |-> result, diag |-> diag]

\* cache[key] = entry
Store(cache, key, entry) ==
    [k \in DOMAIN cache \cup {key} |-> IF k = key THEN entry ELSE cache[k]]

\* Mutant: the key leaves the range name out.
CacheKey_IdOnly(sheet_id, range_name) == <<sheet_id, "Sheet1">>

\* The key of a cached call: both arguments.
CacheKey(sheet_id, range_name) == <<sheet_id, range_name>>

\* An entry serves a call until ttl seconds after it was stored.
CacheHit(cache, key, now) == key \in DOMAIN cache /\ now < cache[key].t + TTL

\* Mutant: the clear leaves the entries in place.
CacheClear_Keep(cache) == cache

\* st.cache_data.clear()
CacheClear(cache) == NoEntries

\* load_sheet_data(sheet_id, range_name) at time now: the caches after the
\* call, what it returned and what it did on the way.
LoadSheetData(cache, memo, sec, sheet_id, range_name, now, outcome, buildOk) ==
    LET key == CacheKey(sheet_id, range_name) IN
    IF CacheHit(cache, key, now)
    THEN [cache |-> cache, memo |-> memo, constructed |-> FALSE, hit |-> TRUE,
          remote |-> FALSE, result |-> cache[key].result, diag |-> cache[key].diag]
    ELSE LET got  == GetClient(memo, sec, buildOk)
             body == LoadBody(got.memo.value, outcome)
         IN  [cache |-> Store(cache, key, Entry(now, body.result, body.diag)),
              memo |-> got.memo, constructed |-> got.ran, hit |-> FALSE,
              remote |-> body.remote, result |-> body.result, diag |-> body.diag]

\* ------------------------------------------------------------------- inputs
\* Sequences over S of length at most n.
SeqUpTo(S, n) == UNION {[1..k -> S] : k \in 0..n}

Headers == { << >>, <<"URL", "Kurdish Tags">>, <<"Kurdish Tags">> }

\* Rows as the API returns them: trailing empty cells are left out, so a row
\* may be shorter than the header, and an empty row is [].
RowPool == { << >>, <<VideoUrl>>, <<ImageUrl, Tag>>, <<Spaces, Tag>> }

\* Every outcome of the range read the row-shaping claims need.
ShapeOutcomes ==
    {Failed(e) : e \in FailureClasses}
      \cup {Values(<< >>)}
      \cup {Values(<<h>> \o rows) : h \in Headers, rows \in SeqUpTo(RowPool, MaxRows)}

\* A sheet that changes between two reads, and a read that fails.
CacheOutcomes ==
    { Failed("http404"),
      Values(<< <<"URL", "Kurdish Tags">>, <<VideoUrl, Tag>> >>),
      Values(<< <<"URL", "Kurdish Tags">>, <<ImageUrl, Tag>> >>) }

GoodSecret == Secret("json", TRUE, CredentialKeys, TRUE)

CacheSecrets ==
    { NoSecret, Secret("json", FALSE, {}, TRUE), GoodSecret,
      Secret("fields", TRUE, CredentialKeys \ {"client_email"}, TRUE) }

AllSecrets ==
    {NoSecret, Secret("json", FALSE, {}, TRUE)}
      \cup {Secret(src, TRUE, ks, pem) :
              src \in {"json", "fields"}, ks \in SUBSET CredentialKeys, pem \in BOOLEAN}

\* -------------------------------------------------------------------- state
VARIABLES
    secrets,        \* st.secrets, fixed for the life of the process
    clientMemo,     \* the cache_resource memo of get_google_sheets_client
    constructions,  \* how often the body of get_google_sheets_client ran
    dataCache,      \* the cache_data entries of load_sheet_data
    clock,          \* seconds since the process started
    widgets,        \* the two text inputs of the sidebar
    pc,             \* "idle", or "rerun" between st.rerun() and the next run
    out,            \* what the last script run put on the page
    last,           \* the load_sheet_data call of the last step, if any
    fetched,        \* per key: when the body last ran and what it returned
    cleared         \* keys cached at a cache-clear and not loaded since

vars == <<secrets, clientMemo, constructions, dataCache, clock, widgets, pc, out,
          last, fetched, cleared>>

NoCall ==
    [called |-> FALSE, key |-> <<"", "">>, hit |-> FALSE, remote |-> FALSE,
     constructed |-> FALSE, result |-> NoneResult, diag |-> NoDiag,
     outcome |-> Failed(""), client |-> "none",
     priorValid |-> FALSE, priorAge |-> 0, priorResult |-> NoneResult,
     afterClear |-> FALSE]

Page(status, df, rendered) == [status |-> status, df |-> df, rendered |-> rendered]

Init(secretsOf) ==
    /\ secrets \in secretsOf
    /\ clientMemo = NoMemo
    /\ constructions = 0
    /\ dataCache = NoEntries
    /\ clock = 0
    /\ widgets = [sheet_id |-> "", sheet_name |-> "Sheet1"]
    /\ pc = "idle"
    /\ out = Page("start", NoneResult, << >>)
    /\ last = NoCall
    /\ fetched = << >>
    /\ cleared = {}

\* ------------------------------------------------------------------ actions
\* The remote is read only by a call the cache does not serve, and build() runs
\* only in a call that runs the body of get_google_sheets_client: a call that
\* does neither has one outcome whatever the sheet holds.
RemoteRead(sheet_id, sheet_name, outcomes) ==
    IF LoadSheetData(dataCache, clientMemo, secrets, sheet_id, sheet_name, clock,
                     Failed(""), TRUE).remote
    THEN outcomes ELSE {Failed("")}

BuildRun(sheet_id, sheet_name) ==
    IF LoadSheetData(dataCache, clientMemo, secrets, sheet_id, sheet_name, clock,
                     Failed(""), TRUE).constructed
    THEN BOOLEAN ELSE {TRUE}

\* The part of main() after the sidebar: load the sheet and render its rows.
\* The page shows the products only for a frame that is neither None nor empty.
LoadAndRender(sheet_id, sheet_name, outcomes) ==
    IF sheet_id = ""
    THEN /\ out' = Page("need_id", NoneResult, << >>)
         /\ last' = NoCall
         /\ UNCHANGED <<clientMemo, constructions, dataCache, fetched, cleared>>
    ELSE \E outcome \in RemoteRead(sheet_id, sheet_name, outcomes),
            buildOk \in BuildRun(sheet_id, sheet_name) :
           LET key  == <<sheet_id, sheet_name>>
               call == LoadSheetData(dataCache, clientMemo, secrets, sheet_id,
                                     sheet_name, clock, outcome, buildOk)
           IN  /\ dataCache' = call.cache
               /\ clientMemo' = call.memo
               /\ constructions' =
                      IF call.constructed /\ constructions < MaxConstructions
                      THEN constructions + 1 ELSE constructions
               /\ last' = [called |-> TRUE, key |-> key, hit |-> call.hit,
                           remote |-> call.remote, constructed |-> call.constructed,
                           result |-> call.result, diag |-> call.diag,
                           outcome |-> IF call.remote THEN outcome ELSE Failed(""),
                           client |-> call.memo.value,
                           priorValid |-> key \in DOMAIN fetched,
                           priorAge |-> IF key \in DOMAIN fetched
                                        THEN clock - fetched[key].t ELSE 0,
                           priorResult |-> IF key \in DOMAIN fetched
                                           THEN fetched[key].result ELSE NoneResult,
                           afterClear |-> key \in cleared]
               /\ fetched' = IF call.hit THEN fetched
                             ELSE Store(fetched, key, [t |-> clock, result |-> call.result])
               /\ cleared' = cleared \ {key}
               /\ IF ~call.result.isNone /\ ~DfEmpty(call.result)
                  THEN \E fails \in SUBSET (1..Len(call.result.rows)) :
                         LET r == RenderFrom(call.result, fails, 1)
                         IN  out' = Page(IF r[Len(r)].kind = "raised"
                                         THEN "crashed" ELSE "done",
                                         call.result, r)
                  ELSE out' = Page("no_data", call.result, << >>)

\* The user edits the text inputs: the script runs with the button not pressed.
Submit(inputs, outcomes) ==
    /\ pc = "idle"
    /\ \E in \in inputs :
         /\ widgets' = [sheet_id |-> in[1], sheet_name |-> in[2]]
         /\ LoadAndRender(in[1], in[2], outcomes)
    /\ UNCHANGED <<secrets, clock, pc>>

\* The user presses "Refresh Data": st.cache_data.clear(), then st.rerun()
\* ends this run before anything is loaded.
PressRefresh ==
    /\ pc = "idle"
    /\ dataCache' = CacheClear(dataCache)
    /\ fetched' = << >>
    /\ cleared' = cleared \cup DOMAIN dataCache
    /\ pc' = "rerun"
    /\ out' = Page("rerun", NoneResult, << >>)
    /\ last' = NoCall
    /\ UNCHANGED <<secrets, clientMemo, constructions, clock, widgets>>

\* The run st.rerun() asked for: same inputs, button not pressed.
Rerun(outcomes) ==
    /\ pc = "rerun"
    /\ LoadAndRender(widgets.sheet_id, widgets.sheet_name, outcomes)
    /\ pc' = "idle"
    /\ UNCHANGED <<secrets, clock, widgets>>

\* Time passes between two runs of the script.
Tick(limit) ==
    /\ pc = "idle"
    /\ clock + TickStep <= limit
    /\ clock' = clock + TickStep
    /\ last' = NoCall
    /\ UNCHANGED <<secrets, clientMemo, constructions, dataCache, widgets, pc, out,
                   fetched, cleared>>

\* ----------------------------------------------------------- specifications
\* Caching and memoization: two ranges of one sheet, four secret stores.
CacheInputs == { <<"", "Sheet1">>, <<"A", "Sheet1">>, <<"A", "Tab2">> }

\* The one sheet of the other two specifications, and no sheet id at all.
OneSheet == { <<"", "Sheet1">>, <<"A", "Sheet1">> }

InitCache == Init(CacheSecrets)

NextCache ==
    \/ Submit(CacheInputs, CacheOutcomes)
    \/ PressRefresh
    \/ Rerun(CacheOutcomes)
    \/ Tick(MaxTime)

Spec == InitCache /\ [][NextCache]_vars

\* Row shaping and rendering: one sheet, every shape of range result.
InitShape == Init({GoodSecret})

NextShape ==
    \/ Submit(OneSheet, ShapeOutcomes)
    \/ PressRefresh
    \/ Rerun(ShapeOutcomes)
    \/ Tick(MaxTime)

SpecShape == InitShape /\ [][NextShape]_vars

\* Credentials: every secret store, one sheet.
InitCred == Init(AllSecrets)

NextCred ==
    \/ Submit(OneSheet, CacheOutcomes)
    \/ PressRefresh
    \/ Rerun(CacheOutcomes)
    \/ Tick(MaxTime)

SpecCred == InitCred /\ [][NextCred]_vars

\* ------------------------------------------------------------------- claims
RemoteReturned == last.called /\ last.remote /\ last.outcome.ok

HeaderOf(values) == IF values = << >> THEN << >> ELSE Head(values)

\* C1: a load of a key whose body ran less than TTL seconds ago, with no
\* cache-clear since, reads nothing from the remote, builds nothing and returns
\* what that run returned; and a load is served from the cache only when the
\* body ran for that very key since the last clear.
C1_SecondLoadServedFromCache ==
    /\ (last.called /\ last.priorValid /\ last.priorAge < TTL)
          => (last.hit /\ ~last.remote /\ ~last.constructed
              /\ last.result = last.priorResult)
    /\ (last.called /\ last.hit) => (last.priorValid /\ last.priorAge < TTL)

\* C1 witness: a load served from the cache some time after the fetch, while
\* the other range of the sheet is cached with a different result.
C1_Witness ==
    /\ last.called /\ last.hit /\ last.priorAge > 0 /\ ~last.result.isNone
    /\ \E k \in DOMAIN dataCache : k # last.key /\ dataCache[k].result # last.result

\* C2 as stated: the first load of a key after a cache-clear at which it was
\* cached reads the remote.
C2_Original == (last.called /\ last.afterClear) => last.remote

\* C2 amended: the first load of a key after a cache-clear at which it was
\* cached is not served from the cache; it reads the remote exactly when the
\* memoized client exists.
C2_RefetchAfterClear ==
    (last.called /\ last.afterClear)
       => (~last.hit /\ (last.remote <=> last.client = "client"))

\* C2 witness: fetched, cleared and fetched again within the same second.
C2_Witness == last.called /\ last.afterClear /\ last.remote /\ clock = 0

\* C3: the body of get_google_sheets_client runs at most once, and once the
\* memo holds a value no step changes it.
C3_ClientBuiltOnce ==
    /\ [](constructions <= 1)
    /\ [][clientMemo.set => clientMemo' = clientMemo]_vars

\* C3 witness: load_sheet_data ran its body again and got the client from the
\* memo.
C3_Witness ==
    /\ constructions = 1 /\ last.called /\ ~last.hit /\ ~last.constructed
    /\ last.client = "client" /\ last.afterClear

\* C10: once the memo holds None, no step changes the memo or runs the body of
\* get_google_sheets_client, every load returns None without a remote read, and
\* the Refresh step never changes the memo.
C10_FailedClientMemoized ==
    [][ /\ (clientMemo.set /\ clientMemo.value = "none")
            => /\ clientMemo' = clientMemo
               /\ constructions' = constructions
               /\ last'.called
                    => (last'.result.isNone /\ ~last'.remote /\ ~last'.constructed)
        /\ (pc = "idle" /\ pc' = "rerun") => clientMemo' = clientMemo ]_vars

\* C10 witness: with None memoized, the load after a Refresh ran its body.
C10_Witness ==
    /\ clientMemo.set /\ clientMemo.value = "none"
    /\ last.called /\ last.afterClear /\ ~last.hit /\ last.result.isNone

SpecDiagnostic(err) ==
    CASE err = "http404" -> "not_found"
      [] err = "http403" -> "access_denied"
      [] OTHER -> "load_error"

Parsed == secrets.source \in {"json", "fields"} /\ secrets.parses

C7_ShortRowsKept ==
    (RemoteReturned /\ HeaderOf(last.outcome.values) # << >>
       /\ Width(Tail(last.outcome.values)) <= Len(Head(last.outcome.values)))
       => /\ ~last.result.isNone
          /\ last.result.cols = Head(last.outcome.values)
          /\ Len(last.result.rows) = Len(last.outcome.values) - 1
          /\ \A i \in 1..(Len(last.outcome.values) - 1) :
                last.result.rows[i] =
                    Pad(last.outcome.values[i + 1], Len(Head(last.outcome.values)))

\* The URL of a row is empty after trimming, absent as a value, or the frame
\* has no URL column.
UrlAbsent(cols, row) ==
    IsNone(RowGet(cols, row, "URL")) \/ Strip(RowGet(cols, row, "URL")) = Blank

RenderPassed == out.status \in {"done", "crashed"}

\* C8: in a render pass, a row without URL that the loop reaches is skipped:
\* it leaves no display unit and raises nothing.
C8_RowsWithoutUrlSkipped ==
    RenderPassed
       => \A i \in 1..Len(out.df.rows) :
             (UrlAbsent(out.df.cols, out.df.rows[i]) /\ i <= Len(out.rendered))
                => out.rendered[i].kind = "skipped"

\* C9: a render pass in which the media of some row failed renders every row
\* of the frame.
C9_MediaErrorIsolated ==
    (RenderPassed /\ \E i \in DOMAIN out.rendered : out.rendered[i].media = "error")
       => (out.status = "done" /\ Len(out.rendered) = Len(out.df.rows))

====
